---- MODULE Spec2Model ----
\* A model of the recipe client's data-orchestration core:
\*   - the useRelatedRecipes hook (the related-recipe aggregation cascade),
\*   - RecipeAPI.searchWithFilters (the query planner) and the requests it sends,
\*   - the Index page's handleSearch over the RecipeContext reducer,
\*   - the SearchBar (memoized, and the variant that is not) and its debounced callback,
\*   - the favourites of the RecipeProvider and the RecipeDetail page.
\* Strings the code inspects character by character are sequences of one-character
\* strings; an optional value is a sequence of length 0 (absent) or 1 (present).
EXTENDS Integers, Sequences, FiniteSets, TLC

\* ---------------------------------------------------------------- bounds
MaxRuns == 2
MaxPoolLen == 2
MaxLimit == 2
MaxFetched == 2
MaxSearches == 2
MaxTyped == 2
TickMs == 100
MaxSaved == 2
MaxFavOps == 3
MaxLookups == 3

\* ---------------------------------------------------------------- values
None == <<>>
Some(x) == <<x>>
IsSome(o) == Len(o) = 1
Get(o) == o[1]

Null == "null"
RelatedFailed == "Failed to load related recipes"

Range(s) == {s[i] : i \in 1..Len(s)}
Min(a, b) == IF a < b THEN a ELSE b
SeqsUpTo(S, n) == UNION {[1..k -> S] : k \in 0..n}

\* String.prototype.toLowerCase over the alphabet the model uses.
LowerChar(c) ==
    CASE c = "C" -> "c"
      [] c = "S" -> "s"
      [] c = "O" -> "o"
      [] c = "T" -> "t"
      [] OTHER -> c
toLowerCase(s) == [i \in 1..Len(s) |-> LowerChar(s[i])]

\* s.split(' ')[0]: the text before the first space (all of s when it has none).
SpaceAt(s) == {i \in 1..Len(s) : s[i] = " "}
FirstSpace(s) == CHOOSE i \in SpaceAt(s) : \A j \in SpaceAt(s) : i <= j
SplitFirst(s) == IF SpaceAt(s) = {} THEN s ELSE SubSeq(s, 1, FirstSpace(s) - 1)

\* ------------------------------------------------- related recipes: inputs
MealIds == {"m1", "m2", "m3"}

\* The focal recipes the component is rendered with (props.recipe).
Focals ==
    { [idMeal |-> "m1", strCategory |-> "Dessert", strArea |-> "French",
       strIngredient1 |-> Some(<<"C", "h", " ", "b">>)],
      [idMeal |-> "m2", strCategory |-> "Dessert", strArea |-> "Italian",
       strIngredient1 |-> None],
      [idMeal |-> "m3", strCategory |-> "Seafood", strArea |-> "French",
       strIngredient1 |-> Some(<<" ", "s">>)],
      [idMeal |-> "m4", strCategory |-> "Seafood", strArea |-> "Italian",
       strIngredient1 |-> Some(<<>>)] }

Limits == 1..MaxLimit

\* What a filter endpoint can answer: any list of recipes (a recipe is represented
\* by its idMeal, the only field the hook reads), repeated entries included.
Pools == SeqsUpTo(MealIds, MaxPoolLen)

\* ----------------------------------------------- related recipes: helpers
\* useMemo at lines 134-143.
searchStrategy(r) ==
    [category |-> r.strCategory,
     area |-> r.strArea,
     mainIngredient |->
        IF IsSome(r.strIngredient1)
        THEN Some(toLowerCase(SplitFirst(Get(r.strIngredient1))))
        ELSE None]

\* A variant of Truthy that takes every string, the empty one too, for a value.
TruthyIfPresent(o) == IsSome(o)

\* JavaScript truthiness of searchStrategy.mainIngredient (undefined and '' are falsy).
Truthy(o) == IsSome(o) /\ Get(o) # <<>>

\* recipes.filter(r => r.idMeal !== recipe.idMeal)
FilterOutCurrent(pool, id) == SelectSeq(pool, LAMBDA r : r # id)

\* A variant of FilterNew that forgets the test against the focal recipe.
FilterNewKeepsCurrent(pool, recipes, id) ==
    SelectSeq(pool, LAMBDA r : r \notin Range(recipes))

\* pool.filter(r => r.idMeal !== recipe.idMeal && !recipes.some(e => e.idMeal === r.idMeal))
FilterNew(pool, recipes, id) ==
    SelectSeq(pool, LAMBDA r : r # id /\ r \notin Range(recipes))

\* A variant of NeedArea that also fetches when the working set is exactly full.
NeedAreaInclusive(recipes, lim) == Len(recipes) <= lim

\* if (recipes.length < limit)
NeedArea(recipes, lim) == Len(recipes) < lim

\* A variant of NeedIngredient that forgets the length test.
NeedIngredientAlways(recipes, lim, strategy) == Truthy(strategy.mainIngredient)

\* if (recipes.length < limit && searchStrategy.mainIngredient)
NeedIngredient(recipes, lim, strategy) ==
    Len(recipes) < lim /\ Truthy(strategy.mainIngredient)

\* recipes.sort(() => Math.random() - 0.5): the comparator is inconsistent, so the
\* engine may leave the array in any order; it stays a rearrangement of its elements.
Shuffles(recipes) ==
    LET n == Len(recipes)
        perms == {p \in [1..n -> 1..n] : \A i, j \in 1..n : p[i] = p[j] => i = j}
    IN  {[i \in 1..n |-> recipes[p[i]]] : p \in perms}

\* A variant of Slice that cuts one element later.
SliceOneMore(s, lim) == SubSeq(s, 1, Min(lim + 1, Len(s)))

\* shuffled.slice(0, limit)
Slice(s, lim) == SubSeq(s, 1, Min(lim, Len(s)))

\* ------------------------------------------------------------------ state
VARIABLES
    recipe,          \* props.recipe of the rendered component
    limit,           \* props.limit
    effectPending,   \* the effect's dependencies changed in the last render
    relatedRecipes,  \* useState at line 129
    loading,         \* useState at line 130
    error,           \* useState at line 131
    runs,            \* the invocations of fetchRelatedRecipes, in the order started
    nRuns,           \* how many have been started
    mounted,         \* the component has been rendered
    gateway,         \* what a deterministic gateway has answered so far, by call
    search,          \* one invocation of recipeAPI.searchWithFilters
    state,           \* the RecipeContext state (useReducer, RecipeContext.tsx line 75)
    searches,        \* the invocations of Index.handleSearch, in the order started
    nSearches,       \* how many have been started
    trending,        \* where loadTrendingRecipes of the Index page is
    barMounted,      \* the SearchBar of the Index page has been rendered
    localValue,      \* useState of SearchBar.tsx line 113
    valueSeen,       \* the `value` prop the effect of lines 131-133 last ran for
    timers,          \* the setTimeout timers that are pending
    timeout,         \* `timeout` of the debounce closure: the timer it set last
    nTimers,         \* how many timers have been set
    quiet,           \* ms since localValue last changed, up to Delay
    typed,           \* how many edits the user has made
    provided,        \* the RecipeProvider has been rendered
    seen,            \* state.favorites of the provider's last render (isFavorite reads it)
    storage,         \* the localStorage item 'recipeFavorites'
    nFavOps,         \* how many times a favourite has been added or removed
    routeId,         \* useParams().id of the RecipeDetail page
    detailPending,   \* the effect of RecipeDetail has a changed dependency
    detail,          \* useState of RecipeDetail.tsx lines 15-17: recipe, loading, error
    lookups,         \* the invocations of fetchRecipe, in the order started
    nLookups         \* how many have been started

relateVars == <<recipe, limit, effectPending, relatedRecipes, loading, error, runs, nRuns, mounted,
                gateway>>
searchVars == <<search>>
indexVars == <<state, searches, nSearches, trending>>
barVars == <<barMounted, localValue, valueSeen, timers, timeout, nTimers, quiet, typed>>
favVars == <<provided, seen, storage, nFavOps>>
detailVars == <<routeId, detailPending, detail, lookups, nLookups>>

RunIds == 1..MaxRuns

\* An invocation that has not been started. Besides the invocation's own variables
\* (focal, lim, strategy: what the closure captured; recipes: its working set) the
\* record keeps a log of what it did: the calls it sent, the length of the working
\* set after each answer, how often it called setRelatedRecipes and with what, and
\* how often it called setError with the failure text.
NoRun ==
    [pc |-> "idle", focal |-> "", lim |-> 0,
     strategy |-> [category |-> "", area |-> "", mainIngredient |-> None],
     recipes |-> <<>>, calls |-> <<>>, sizes |-> <<>>, outstanding |-> 0,
     published |-> 0, result |-> None, errors |-> 0]

\* One gateway call as the run's log keeps it: the endpoint, its argument and the
\* length of the working set when the call was sent.
Call(dim, arg, size) == [dim |-> dim, arg |-> arg, size |-> size]

\* recipeAPI.getRecipesByCategory / getRecipesByArea / getRecipesByIngredient is sent
\* and the invocation suspends on it.
Issue(run, pc, dim, arg) ==
    [run EXCEPT !.pc = pc,
                !.calls = Append(@, Call(dim, arg, Len(run.recipes))),
                !.outstanding = @ + 1]

\* The awaited call has answered.
Received(run) == [run EXCEPT !.outstanding = @ - 1]

\* The working set after the answer has been merged into it.
Merged(run, recipes) ==
    [run EXCEPT !.recipes = recipes, !.sizes = Append(@, Len(recipes))]

\* Before the first render: props.recipe and props.limit have no value yet.
NoRecipe == [idMeal |-> "", strCategory |-> "", strArea |-> "", strIngredient1 |-> None]

RelateInit ==
    /\ mounted = FALSE
    /\ recipe = NoRecipe
    /\ limit = 0
    /\ effectPending = FALSE
    /\ relatedRecipes = <<>>
    /\ loading = FALSE
    /\ error = Null
    /\ runs = [k \in RunIds |-> NoRun]
    /\ nRuns = 0
    /\ gateway = {}

\* The first render: useState gives the initial values and the effect is scheduled.
Mount(r, l) ==
    /\ ~mounted
    /\ mounted' = TRUE
    /\ recipe' = r
    /\ limit' = l
    /\ effectPending' = TRUE
    /\ UNCHANGED <<relatedRecipes, loading, error, runs, nRuns, gateway, searchVars, favVars, detailVars, indexVars, barVars>>

\* The component is rendered with another recipe or limit: a dependency of the
\* effect (line 192) changes and the effect is scheduled.
ChangeRecipe(r, l) ==
    /\ mounted
    /\ ~effectPending
    /\ nRuns < MaxRuns
    /\ <<r, l>> # <<recipe, limit>>
    /\ recipe' = r
    /\ limit' = l
    /\ effectPending' = TRUE
    /\ UNCHANGED <<mounted, relatedRecipes, loading, error, runs, nRuns, gateway, searchVars, favVars, detailVars, indexVars, barVars>>

\* The effect runs fetchRelatedRecipes up to its first await (lines 146-154).
RunEffect ==
    /\ effectPending
    /\ nRuns < MaxRuns
    /\ LET strategy == searchStrategy(recipe)
           run == [NoRun EXCEPT !.focal = recipe.idMeal, !.lim = limit,
                                !.strategy = strategy]
       IN  runs' = [runs EXCEPT ![nRuns + 1] =
                        Issue(run, "awaitCategory", "category", strategy.category)]
    /\ nRuns' = nRuns + 1
    /\ effectPending' = FALSE
    /\ loading' = TRUE
    /\ error' = Null
    /\ UNCHANGED <<mounted, recipe, limit, relatedRecipes, gateway, searchVars, favVars, detailVars, indexVars, barVars>>

\* Lines 179-181 and the finally block: shuffle, publish, loading off.
Finish(k, run) ==
    /\ \E shuffled \in Shuffles(run.recipes) :
          /\ relatedRecipes' = Slice(shuffled, run.lim)
          /\ runs' = [runs EXCEPT ![k] =
                 [run EXCEPT !.pc = "done", !.published = @ + 1,
                             !.result = Some(Slice(shuffled, run.lim))]]
    /\ loading' = FALSE
    /\ UNCHANGED error

\* A variant of AfterArea that reads the props of the current render instead of the
\* ones the invocation captured.
AfterAreaCurrentProps(k, run) ==
    IF NeedIngredient(run.recipes, limit, searchStrategy(recipe))
    THEN /\ runs' = [runs EXCEPT ![k] =
                Issue(run, "awaitIngredient", "ingredient",
                      Get(searchStrategy(recipe).mainIngredient))]
         /\ UNCHANGED <<relatedRecipes, loading, error>>
    ELSE Finish(k, [run EXCEPT !.lim = limit])

\* Lines 169-181: the ingredient step, or the end of the invocation.
AfterArea(k, run) ==
    IF NeedIngredient(run.recipes, run.lim, run.strategy)
    THEN /\ runs' = [runs EXCEPT ![k] =
                Issue(run, "awaitIngredient", "ingredient", Get(run.strategy.mainIngredient))]
         /\ UNCHANGED <<relatedRecipes, loading, error>>
    ELSE Finish(k, run)

\* A variant of CategoryAnswer that samples `limit` recipes of the category pool at
\* random before it looks at the length.
CategoryAnswerSampled(k, pool) ==
    /\ runs[k].pc = "awaitCategory"
    /\ \E sampled \in Shuffles(FilterOutCurrent(pool, runs[k].focal)) :
          LET got == Received(runs[k])
              run == Merged(got, Slice(sampled, got.lim))
          IN  IF NeedArea(run.recipes, run.lim)
              THEN /\ runs' = [runs EXCEPT ![k] =
                          Issue(run, "awaitArea", "area", run.strategy.area)]
                   /\ UNCHANGED <<relatedRecipes, loading, error>>
              ELSE AfterArea(k, run)
    /\ UNCHANGED <<mounted, recipe, limit, effectPending, nRuns, searchVars, favVars, detailVars, indexVars, barVars>>

\* getRecipesByCategory answers (lines 154-167 and what follows without an await).
CategoryAnswer(k, pool) ==
    /\ runs[k].pc = "awaitCategory"
    /\ LET got == Received(runs[k])
           run == Merged(got, FilterOutCurrent(pool, got.focal))
       IN  IF NeedArea(run.recipes, run.lim)
           THEN /\ runs' = [runs EXCEPT ![k] =
                       Issue(run, "awaitArea", "area", run.strategy.area)]
                /\ UNCHANGED <<relatedRecipes, loading, error>>
           ELSE AfterArea(k, run)
    /\ UNCHANGED <<mounted, recipe, limit, effectPending, nRuns, searchVars, favVars, detailVars, indexVars, barVars>>

\* getRecipesByArea answers (lines 161-166 and what follows).
AreaAnswer(k, pool) ==
    /\ runs[k].pc = "awaitArea"
    /\ LET got == Received(runs[k])
           run == Merged(got, got.recipes \o FilterNew(pool, got.recipes, got.focal))
       IN  AfterArea(k, run)
    /\ UNCHANGED <<mounted, recipe, limit, effectPending, nRuns, searchVars, favVars, detailVars, indexVars, barVars>>

\* getRecipesByIngredient answers (lines 171-181).
IngredientAnswer(k, pool) ==
    /\ runs[k].pc = "awaitIngredient"
    /\ LET got == Received(runs[k])
           run == Merged(got, got.recipes \o FilterNew(pool, got.recipes, got.focal))
       IN  Finish(k, run)
    /\ UNCHANGED <<mounted, recipe, limit, effectPending, nRuns, searchVars, favVars, detailVars, indexVars, barVars>>

\* The gateway answers outside any test double: nothing ties one answer to another.
CategoryReturns(k, pool) == CategoryAnswer(k, pool) /\ UNCHANGED gateway
AreaReturns(k, pool) == AreaAnswer(k, pool) /\ UNCHANGED gateway
IngredientReturns(k, pool) == IngredientAnswer(k, pool) /\ UNCHANGED gateway

\* A deterministic gateway answers the call the run waits for: a call it has
\* answered before gets the same pool again, and the answer is remembered.
Serve(run, pool) ==
    LET c == run.calls[Len(run.calls)]
    IN  /\ \A e \in gateway : (e.dim = c.dim /\ e.arg = c.arg) => e.pool = pool
        /\ gateway' = gateway \cup {[dim |-> c.dim, arg |-> c.arg, pool |-> pool]}

CategoryServed(k, pool) == CategoryAnswer(k, pool) /\ Serve(runs[k], pool)
AreaServed(k, pool) == AreaAnswer(k, pool) /\ Serve(runs[k], pool)
IngredientServed(k, pool) == IngredientAnswer(k, pool) /\ Serve(runs[k], pool)

\* The parent renders the component with a new recipe object that has the same
\* content (a recipe fetched again): the dependency `recipe` of line 192 differs by
\* reference and the effect is scheduled again.
RefreshRecipe ==
    /\ mounted
    /\ ~effectPending
    /\ nRuns < MaxRuns
    /\ effectPending' = TRUE
    /\ UNCHANGED <<mounted, recipe, limit, relatedRecipes, loading, error, runs, nRuns,
                   gateway, searchVars, favVars, detailVars, indexVars, barVars>>

\* A variant of FetchFails whose catch block publishes what was collected so far.
FetchFailsPartial(k) ==
    /\ runs[k].pc \in {"awaitCategory", "awaitArea", "awaitIngredient"}
    /\ runs' = [runs EXCEPT ![k] =
           [@ EXCEPT !.pc = "failed", !.outstanding = @ - 1, !.errors = @ + 1,
                     !.published = @ + 1,
                     !.result = Some(Slice(runs[k].recipes, runs[k].lim))]]
    /\ relatedRecipes' = Slice(runs[k].recipes, runs[k].lim)
    /\ error' = RelatedFailed
    /\ loading' = FALSE
    /\ UNCHANGED <<mounted, recipe, limit, effectPending, nRuns, gateway, searchVars, favVars, detailVars, indexVars, barVars>>

\* A variant of FetchFails that sends the rejected call once more.
FetchFailsRetry(k) ==
    /\ runs[k].pc \in {"awaitCategory", "awaitArea", "awaitIngredient"}
    /\ LET run == runs[k]
           last == run.calls[Len(run.calls)]
       IN  IF Len(run.calls) < 4
           THEN /\ runs' = [runs EXCEPT ![k] = Issue(Received(run), run.pc, last.dim, last.arg)]
                /\ UNCHANGED <<error, loading>>
           ELSE /\ runs' = [runs EXCEPT ![k] =
                       [@ EXCEPT !.pc = "failed", !.outstanding = @ - 1, !.errors = @ + 1]]
                /\ error' = RelatedFailed
                /\ loading' = FALSE
    /\ UNCHANGED <<mounted, recipe, limit, effectPending, relatedRecipes, nRuns, gateway, searchVars, favVars, detailVars, indexVars, barVars>>

\* A variant of FetchFails in which the run gives up on a call that has not
\* returned: it reports the failure while the call is still outstanding.
FetchFailsTimedOut(k) ==
    /\ runs[k].pc \in {"awaitCategory", "awaitArea", "awaitIngredient"}
    /\ runs' = [runs EXCEPT ![k] = [@ EXCEPT !.pc = "failed", !.errors = @ + 1]]
    /\ error' = RelatedFailed
    /\ loading' = FALSE
    /\ UNCHANGED <<mounted, recipe, limit, effectPending, relatedRecipes, nRuns, gateway, searchVars, favVars, detailVars, indexVars, barVars>>

\* A variant of FetchFails without the catch and finally blocks: the rejection ends
\* the invocation and nothing is reported.
FetchFailsUnhandled(k) ==
    /\ runs[k].pc \in {"awaitCategory", "awaitArea", "awaitIngredient"}
    /\ runs' = [runs EXCEPT ![k] = [@ EXCEPT !.pc = "rejected", !.outstanding = @ - 1]]
    /\ UNCHANGED <<mounted, recipe, limit, effectPending, relatedRecipes, loading, error, nRuns,
                   gateway, searchVars, favVars, detailVars, indexVars, barVars>>

\* The awaited call rejects (fetchData rethrows): catch and finally, lines 183-188.
FetchFails(k) ==
    /\ runs[k].pc \in {"awaitCategory", "awaitArea", "awaitIngredient"}
    /\ runs' = [runs EXCEPT ![k] = [@ EXCEPT !.pc = "failed", !.outstanding = @ - 1,
                                             !.errors = @ + 1]]
    /\ error' = RelatedFailed
    /\ loading' = FALSE
    /\ UNCHANGED <<mounted, recipe, limit, effectPending, relatedRecipes, nRuns, gateway, searchVars, favVars, detailVars, indexVars, barVars>>

\* ---------------------------------------------------- query planner: inputs
RandomCount == 12

\* The recipes a fetch can answer with. The filter endpoints answer with partial
\* recipes (no strInstructions, no strTags); the search and random endpoints with
\* whole ones, whose strTags may be null.
SearchCatalogue ==
    { [idMeal |-> "s1", strMeal |-> <<"S", "o">>, strInstructions |-> Some(<<"t">>),
       strTags |-> Some(<<"e">>)],
      [idMeal |-> "s2", strMeal |-> <<"S", "t">>, strInstructions |-> None,
       strTags |-> None],
      [idMeal |-> "s3", strMeal |-> <<"S", "t">>, strInstructions |-> Some(<<"o", "S", "O">>),
       strTags |-> None],
      [idMeal |-> "s4", strMeal |-> <<"S", "t">>, strInstructions |-> Some(<<"t">>),
       strTags |-> None],
      [idMeal |-> "s5", strMeal |-> <<"S", "t">>, strInstructions |-> Some(<<"t">>),
       strTags |-> Some(<<"e", "S", "o">>)],
      [idMeal |-> "s6", strMeal |-> <<"s", "O">>, strInstructions |-> None,
       strTags |-> None] }

\* What one random.php request answers with when it has a meal.
RandomMeal == CHOOSE r \in SearchCatalogue : r.idMeal = "s1"

Queries == { <<>>, <<"s", "o">>, <<"S", "O">>, <<"t">> }
FilterValues == { None, Some(<<>>), Some(<<"c", "h">>) }
FilterSets == [category : FilterValues, area : FilterValues, ingredient : FilterValues]
Fetched == SeqsUpTo(SearchCatalogue, MaxFetched)

\* --------------------------------------------------- query planner: helpers
\* String.prototype.includes
includes(s, t) == \E i \in 0..(Len(s) - Len(t)) : SubSeq(s, i + 1, i + Len(t)) = t

Request(endpoint, arg) == [endpoint |-> endpoint, arg |-> arg]

\* A variant of Plan that looks at the category filter before the ingredient filter.
PlanCategoryFirst(query, filters) ==
    IF Truthy(filters.category)
    THEN <<Request("category", Get(filters.category))>>
    ELSE IF Truthy(filters.ingredient)
    THEN <<Request("ingredient", Get(filters.ingredient))>>
    ELSE IF Truthy(filters.area)
    THEN <<Request("area", Get(filters.area))>>
    ELSE IF query # <<>>
    THEN <<Request("name", query)>>
    ELSE [i \in 1..RandomCount |-> Request("random", <<>>)]

\* A variant of Plan that sends a request for every filter that is set.
PlanEveryFilter(query, filters) ==
    LET ing == IF Truthy(filters.ingredient)
               THEN <<Request("ingredient", Get(filters.ingredient))>> ELSE <<>>
        cat == IF Truthy(filters.category)
               THEN <<Request("category", Get(filters.category))>> ELSE <<>>
        are == IF Truthy(filters.area)
               THEN <<Request("area", Get(filters.area))>> ELSE <<>>
    IN  IF ing \o cat \o are # <<>>
        THEN ing \o cat \o are
        ELSE IF query # <<>>
        THEN <<Request("name", query)>>
        ELSE [i \in 1..RandomCount |-> Request("random", <<>>)]

\* Lines 92-102: the requests the invocation sends. getRandomRecipes(12) sends its
\* 12 random.php requests at once (lines 45-46).
Plan(query, filters) ==
    IF Truthy(filters.ingredient)
    THEN <<Request("ingredient", Get(filters.ingredient))>>
    ELSE IF Truthy(filters.category)
    THEN <<Request("category", Get(filters.category))>>
    ELSE IF Truthy(filters.area)
    THEN <<Request("area", Get(filters.area))>>
    ELSE IF query # <<>>
    THEN <<Request("name", query)>>
    ELSE [i \in 1..RandomCount |-> Request("random", <<>>)]

\* A variant of Keep that compares the recipe's name without lower-casing it.
KeepCaseSensitive(r, queryLower) ==
    IF includes(r.strMeal, queryLower) THEN "keep"
    ELSE IF ~IsSome(r.strInstructions) THEN "throw"
    ELSE IF includes(toLowerCase(Get(r.strInstructions)), queryLower) THEN "keep"
    ELSE IF IsSome(r.strTags) /\ includes(toLowerCase(Get(r.strTags)), queryLower) THEN "keep"
    ELSE "drop"

\* The predicate of lines 107-111 on one recipe: "keep", "drop", or "throw" when
\* toLowerCase is called on an absent strInstructions (|| evaluates left to right;
\* ?. turns an absent strTags into undefined, which is falsy).
Keep(r, queryLower) ==
    IF includes(toLowerCase(r.strMeal), queryLower) THEN "keep"
    ELSE IF ~IsSome(r.strInstructions) THEN "throw"
    ELSE IF includes(toLowerCase(Get(r.strInstructions)), queryLower) THEN "keep"
    ELSE IF IsSome(r.strTags) /\ includes(toLowerCase(Get(r.strTags)), queryLower) THEN "keep"
    ELSE "drop"

\* Lines 105-114: None when the filter callback throws, else the list returned.
PostFilter(query, recipes) ==
    IF query # <<>> /\ Len(recipes) > 0
    THEN LET queryLower == toLowerCase(query)
         IN  IF \E i \in 1..Len(recipes) : Keep(recipes[i], queryLower) = "throw"
             THEN None
             ELSE Some(SelectSeq(recipes, LAMBDA r : Keep(r, queryLower) = "keep"))
    ELSE Some(recipes)

\* ----------------------------------------------------- query planner: state

\* pc: "idle", "await" (one request), "awaitAll" (Promise.all of the random
\* requests), "done" (returned), "failed" (rejected). requests: what was sent, in
\* order. outstanding: requests sent and not yet answered. random: the answers of
\* the random requests so far, in the order of the promises. fetched: the value of
\* `recipes` after the fetch. result: the list returned.
NoSearch ==
    [pc |-> "idle", query |-> <<>>,
     filters |-> [category |-> None, area |-> None, ingredient |-> None],
     requests |-> <<>>, outstanding |-> 0, random |-> <<>>,
     fetched |-> None, result |-> None]

SearchInit == search = NoSearch

\* Lines 104-114, once `recipes` holds the fetched list.
Return(s, recipes) ==
    LET out == PostFilter(s.query, recipes)
    IN  [s EXCEPT !.pc = IF IsSome(out) THEN "done" ELSE "failed",
                  !.fetched = Some(recipes),
                  !.result = out]

\* recipeAPI.searchWithFilters(query, filters) is called: lines 89-102 up to the await.
SearchWithFilters(query, filters) ==
    /\ search.pc = "idle"
    /\ LET plan == Plan(query, filters)
       IN  search' = [search EXCEPT
                !.pc = IF plan[1].endpoint = "random" THEN "awaitAll" ELSE "await",
                !.query = query, !.filters = filters,
                !.requests = plan, !.outstanding = Len(plan)]
    /\ UNCHANGED <<relateVars, indexVars, barVars, favVars, detailVars>>

\* The one request of lines 93-99 answers.
FetchReturns(recipes) ==
    /\ search.pc = "await"
    /\ search' = Return([search EXCEPT !.outstanding = @ - 1], recipes)
    /\ UNCHANGED <<relateVars, indexVars, barVars, favVars, detailVars>>

\* The one request rejects: the await throws and the invocation rejects.
FetchRejects ==
    /\ search.pc = "await"
    /\ search' = [search EXCEPT !.pc = "failed", !.outstanding = @ - 1]
    /\ UNCHANGED <<relateVars, indexVars, barVars, favVars, detailVars>>

\* One random.php request answers with a meal or with none (getRandomRecipe, lines
\* 38-41); after the last one Promise.all resolves and nulls are dropped (line 47).
RandomReturns(meal) ==
    /\ search.pc = "awaitAll"
    /\ LET s == [search EXCEPT !.outstanding = @ - 1, !.random = Append(@, meal)]
       IN  search' = IF s.outstanding = 0
                     THEN Return(s, SelectSeq(s.random, LAMBDA m : IsSome(m)))
                     ELSE s
    /\ UNCHANGED <<relateVars, indexVars, barVars, favVars, detailVars>>

\* One random.php request rejects: Promise.all rejects at once.
RandomRejects ==
    /\ search.pc = "awaitAll"
    /\ search' = [search EXCEPT !.pc = "failed", !.outstanding = @ - 1]
    /\ UNCHANGED <<relateVars, indexVars, barVars, favVars, detailVars>>

\* An answer to a random.php request arrives after Promise.all has rejected.
LateAnswer ==
    /\ search.pc = "failed"
    /\ search.outstanding > 0
    /\ search' = [search EXCEPT !.outstanding = @ - 1]
    /\ UNCHANGED <<relateVars, indexVars, barVars, favVars, detailVars>>

\* ------------------------------------------------------------ the Index page
SearchFailed == "Failed to search recipes"

\* filters: {} of initialState (RecipeContext.tsx line 31).
NoFilters == [category |-> None, area |-> None, ingredient |-> None]

\* initialState, RecipeContext.tsx lines 25-33 (the fields the Index page's search
\* reads or writes).
initialState ==
    [recipes |-> <<>>, favorites |-> <<>>, loading |-> FALSE, error |-> Null,
     searchQuery |-> <<>>, filters |-> NoFilters]

\* recipeReducer, RecipeContext.tsx lines 35-62.
recipeReducer(st, type, payload) ==
    CASE type = "SET_LOADING" -> [st EXCEPT !.loading = payload]
      [] type = "SET_RECIPES" -> [st EXCEPT !.recipes = payload, !.loading = FALSE, !.error = Null]
      [] type = "SET_ERROR" -> [st EXCEPT !.error = payload, !.loading = FALSE]
      [] type = "SET_SEARCH_QUERY" -> [st EXCEPT !.searchQuery = payload]
      [] type = "SET_FILTERS" -> [st EXCEPT !.filters = payload]
      [] type = "ADD_FAVORITE" -> [st EXCEPT !.favorites = Append(@, payload)]
      [] type = "REMOVE_FAVORITE" ->
            [st EXCEPT !.favorites = SelectSeq(@, LAMBDA r : r # payload)]
      [] type = "LOAD_FAVORITES" -> [st EXCEPT !.favorites = payload]
      [] OTHER -> st

\* The queries handleSearch is called with and the filter sets FilterChips hands to
\* handleFilterChange.
IndexQueries == Queries \ {<<>>}
IndexFilters == {f \in FilterSets : f.area = None /\ f.ingredient = None}

SearchIds == 1..MaxSearches

\* An invocation of handleSearch that has not been started. query, filters: the
\* arguments it gave searchWithFilters; requests: what that call sends (Plan);
\* errors, stored: how often the invocation dispatched SET_ERROR and SET_RECIPES.
NoHandle ==
    [pc |-> "idle", query |-> <<>>, filters |-> NoFilters, requests |-> <<>>,
     errors |-> 0, stored |-> 0]

IndexInit ==
    /\ state = initialState
    /\ searches = [k \in SearchIds |-> NoHandle]
    /\ nSearches = 0
    /\ trending = "idle"

\* The mount effect of the page, lines 21-36, up to its await.
LoadTrending ==
    /\ trending = "idle"
    /\ trending' = "await"
    /\ state' = recipeReducer(state, "SET_LOADING", TRUE)
    /\ UNCHANGED <<searches, nSearches, relateVars, searchVars, favVars, detailVars, barVars>>

\* getRandomRecipes(6) settles: the finally block of line 31 (setTrendingRecipes and
\* the console are not part of the context state).
TrendingSettles ==
    /\ trending = "await"
    /\ trending' = "done"
    /\ state' = recipeReducer(state, "SET_LOADING", FALSE)
    /\ UNCHANGED <<searches, nSearches, relateVars, searchVars, favVars, detailVars, barVars>>

\* handleSearch up to its await (lines 39-47), run by a closure that holds the
\* context state st: the two dispatches, then searchWithFilters with st's filters.
Started(st, query, filters) ==
    /\ nSearches < MaxSearches
    /\ state' = recipeReducer(recipeReducer(st, "SET_LOADING", TRUE),
                              "SET_SEARCH_QUERY", query)
    /\ searches' = [searches EXCEPT ![nSearches + 1] =
           [NoHandle EXCEPT !.pc = "await", !.query = query, !.filters = filters,
                            !.requests = Plan(query, filters)]]
    /\ nSearches' = nSearches + 1

\* handleSearch(query) of the current render.
HandleSearch(query) ==
    /\ Started(state, query, state.filters)
    /\ UNCHANGED <<trending, relateVars, searchVars, favVars, detailVars, barVars>>

\* handleFilterChange, lines 56-61: the dispatch, then handleSearch of the same
\* render, whose state.filters are still the filters of before the dispatch.
HandleFilterChange(newFilters) ==
    /\ LET st == recipeReducer(state, "SET_FILTERS", newFilters)
       IN  IF state.searchQuery # <<>>
           THEN Started(st, state.searchQuery, state.filters)
           ELSE /\ state' = st
                /\ UNCHANGED <<searches, nSearches>>
    /\ UNCHANGED <<trending, relateVars, searchVars, favVars, detailVars, barVars>>

\* A variant of SearchRejects that stores an empty list before the error.
SearchRejectsEmptied(k) ==
    /\ searches[k].pc = "await"
    /\ searches' = [searches EXCEPT ![k] = [@ EXCEPT !.pc = "failed", !.errors = @ + 1]]
    /\ state' = recipeReducer(recipeReducer(state, "SET_RECIPES", <<>>),
                              "SET_ERROR", SearchFailed)
    /\ UNCHANGED <<nSearches, trending, relateVars, searchVars, favVars, detailVars, barVars>>

\* The request of searchWithFilters rejects: the await of line 43 throws, line 51.
SearchRejects(k) ==
    /\ searches[k].pc = "await"
    /\ searches' = [searches EXCEPT ![k] = [@ EXCEPT !.pc = "failed", !.errors = @ + 1]]
    /\ state' = recipeReducer(state, "SET_ERROR", SearchFailed)
    /\ UNCHANGED <<nSearches, trending, relateVars, searchVars, favVars, detailVars, barVars>>

\* The request of searchWithFilters answers with `fetched`: searchWithFilters
\* returns PostFilter's list (line 49) or throws in its filter (line 51).
SearchSettles(k, fetched) ==
    /\ searches[k].pc = "await"
    /\ LET out == PostFilter(searches[k].query, fetched)
       IN  IF IsSome(out)
           THEN /\ searches' = [searches EXCEPT ![k] =
                       [@ EXCEPT !.pc = "done", !.stored = @ + 1]]
                /\ state' = recipeReducer(state, "SET_RECIPES", Get(out))
           ELSE /\ searches' = [searches EXCEPT ![k] =
                       [@ EXCEPT !.pc = "failed", !.errors = @ + 1]]
                /\ state' = recipeReducer(state, "SET_ERROR", SearchFailed)
    /\ UNCHANGED <<nSearches, trending, relateVars, searchVars, favVars, detailVars, barVars>>


\* ------------------------------------------------------------ the SearchBar
\* The memoized SearchBar (SearchBar.tsx lines 104-187) as the Index page renders it:
\* value is state.searchQuery, onChange dispatches SET_SEARCH_QUERY and onSearch is
\* handleSearch (part_006 lines 128-131).
Delay == 300

\* What the user can have in the input.
Texts == { <<>>, <<" ">>, <<"t">>, <<"t", " ">>, <<" ", "s", "o">> }

\* String.prototype.trim over the model's alphabet, whose only white space is ' '.
Inked(s) == {i \in 1..Len(s) : s[i] # " "}
Trim(s) ==
    IF Inked(s) = {} THEN <<>>
    ELSE SubSeq(s, CHOOSE i \in Inked(s) : \A j \in Inked(s) : i <= j,
                   CHOOSE i \in Inked(s) : \A j \in Inked(s) : i >= j)

BarInit ==
    /\ barMounted = FALSE
    /\ localValue = <<>>
    /\ valueSeen = <<>>
    /\ timers = {}
    /\ timeout = 0
    /\ nTimers = 0
    /\ quiet = 0
    /\ typed = 0

\* A variant of Debounced whose closure is new at each call (its `timeout` is
\* undefined), so that clearTimeout finds nothing to clear.
DebouncedAfresh(searchValue) ==
    /\ timers' = timers \cup {[id |-> nTimers + 1, arg |-> searchValue, remaining |-> Delay]}
    /\ timeout' = nTimers + 1
    /\ nTimers' = nTimers + 1

\* debouncedSearchRef.current(searchValue): helpers.ts lines 152-155, on the one
\* closure the ref keeps (SearchBar.tsx line 117).
Debounced(searchValue) ==
    /\ timers' = {t \in timers : t.id # timeout}
                    \cup {[id |-> nTimers + 1, arg |-> searchValue, remaining |-> Delay]}
    /\ timeout' = nTimers + 1
    /\ nTimers' = nTimers + 1

\* The first render with its two effects (lines 113, 126-133).
MountBar ==
    /\ ~barMounted
    /\ barMounted' = TRUE
    /\ localValue' = state.searchQuery
    /\ valueSeen' = state.searchQuery
    /\ Debounced(state.searchQuery)
    /\ quiet' = 0
    /\ UNCHANGED <<typed, relateVars, searchVars, favVars, detailVars, indexVars>>

\* The user edits the input: setLocalValue (line 164); React runs the effect of
\* lines 126-128 for the new localValue before it handles the next event.
Type(text) ==
    /\ barMounted
    /\ typed < MaxTyped
    /\ text # localValue
    /\ typed' = typed + 1
    /\ localValue' = text
    /\ Debounced(text)
    /\ quiet' = 0
    /\ UNCHANGED <<barMounted, valueSeen, relateVars, searchVars, favVars, detailVars, indexVars>>

\* handleClear, lines 139-142 (the button is rendered while localValue is not empty).
Clear ==
    /\ barMounted
    /\ typed < MaxTyped
    /\ localValue # <<>>
    /\ typed' = typed + 1
    /\ localValue' = <<>>
    /\ Debounced(<<>>)
    /\ quiet' = 0
    /\ state' = recipeReducer(state, "SET_SEARCH_QUERY", <<>>)
    /\ UNCHANGED <<barMounted, valueSeen, searches, nSearches, trending, relateVars, searchVars, favVars, detailVars>>

\* handleSubmit, lines 149-154: onSearch of the current render.
Submit ==
    /\ barMounted
    /\ Trim(localValue) # <<>>
    /\ Started(state, Trim(localValue), state.filters)
    /\ UNCHANGED <<trending, relateVars, searchVars, favVars, detailVars, barVars>>

\* TickMs milliseconds pass.
Tick ==
    /\ barMounted
    /\ quiet < Delay \/ \E t \in timers : t.remaining > 0
    /\ quiet' = Min(Delay, quiet + TickMs)
    /\ timers' = {[t EXCEPT !.remaining = IF @ > TickMs THEN @ - TickMs ELSE 0] : t \in timers}
    /\ UNCHANGED <<barMounted, localValue, valueSeen, timeout, nTimers, typed,
                   relateVars, searchVars, favVars, detailVars, indexVars>>

\* A timer is due and its callback runs (lines 117-123): onChange, then onSearch of
\* the first render, whose handleSearch holds the initial context state.
Fire(t) ==
    /\ t \in timers
    /\ t.remaining = 0
    /\ timers' = timers \ {t}
    /\ LET st == recipeReducer(state, "SET_SEARCH_QUERY", t.arg)
       IN  IF Trim(t.arg) # <<>>
           THEN Started(st, Trim(t.arg), initialState.filters)
           ELSE /\ state' = st
                /\ UNCHANGED <<searches, nSearches>>
    /\ UNCHANGED <<barMounted, localValue, valueSeen, timeout, nTimers, quiet, typed,
                   trending, relateVars, searchVars, favVars, detailVars>>

\* Some timer that is due fires.
FireDue == \E t \in timers : Fire(t)

\* The bar is rendered with another `value`: the effect of lines 131-133 sets
\* localValue, and when that changes it the effect of lines 126-128 runs.
SyncValue ==
    /\ barMounted
    /\ state.searchQuery # valueSeen
    /\ valueSeen' = state.searchQuery
    /\ localValue' = state.searchQuery
    /\ IF state.searchQuery # localValue
       THEN Debounced(state.searchQuery) /\ quiet' = 0
       ELSE UNCHANGED <<timers, timeout, nTimers, quiet>>
    /\ UNCHANGED <<barMounted, typed, relateVars, searchVars, favVars, detailVars, indexVars>>

\* --------------------------------------- the SearchBar that is not memoized
\* SearchBar.tsx lines 13-72: debounce(...) is called in the body of the component,
\* so every render has a debounced function of its own, whose `timeout` is
\* undefined when the effect of that render calls it: clearTimeout clears nothing
\* and every call leaves one more timer pending. The id of a pending timer is its
\* place in the order the timers were set, which is the order they come due in.
DebouncedPerRender(searchValue) ==
    /\ timers' = timers \cup {[id |-> Cardinality(timers) + 1, arg |-> searchValue,
                                remaining |-> Delay]}
    /\ UNCHANGED <<timeout, nTimers>>

\* The first render with its two effects (lines 20, 29-35).
MountPlain ==
    /\ ~barMounted
    /\ barMounted' = TRUE
    /\ localValue' = state.searchQuery
    /\ valueSeen' = state.searchQuery
    /\ DebouncedPerRender(state.searchQuery)
    /\ quiet' = 0
    /\ UNCHANGED <<typed, relateVars, searchVars, favVars, detailVars, indexVars>>

\* The user edits the input: setLocalValue (line 55) and the effect of lines 29-31.
TypePlain(text) ==
    /\ barMounted
    /\ typed < MaxTyped
    /\ text # localValue
    /\ typed' = typed + 1
    /\ localValue' = text
    /\ DebouncedPerRender(text)
    /\ quiet' = 0
    /\ UNCHANGED <<barMounted, valueSeen, relateVars, searchVars, favVars, detailVars, indexVars>>

\* handleClear, lines 37-40.
ClearPlain ==
    /\ barMounted
    /\ typed < MaxTyped
    /\ localValue # <<>>
    /\ typed' = typed + 1
    /\ localValue' = <<>>
    /\ DebouncedPerRender(<<>>)
    /\ quiet' = 0
    /\ state' = recipeReducer(state, "SET_SEARCH_QUERY", <<>>)
    /\ UNCHANGED <<barMounted, valueSeen, searches, nSearches, trending, relateVars, searchVars,
                   favVars, detailVars>>

\* handleSearch up to its await, as Started; the invocation is kept in `searches`
\* while there is room for it, and only its dispatches are kept after that.
Searched(st, query, filters) ==
    IF nSearches < MaxSearches
    THEN Started(st, query, filters)
    ELSE /\ state' = recipeReducer(recipeReducer(st, "SET_LOADING", TRUE),
                                   "SET_SEARCH_QUERY", query)
         /\ UNCHANGED <<searches, nSearches>>

\* The timer set first is due and its callback runs (lines 22-27): onChange, then
\* onSearch.
FirePlain(t) ==
    /\ t \in timers
    /\ t.remaining = 0
    /\ \A u \in timers : t.id <= u.id
    /\ timers' = {[u EXCEPT !.id = @ - 1] : u \in timers \ {t}}
    /\ LET st == recipeReducer(state, "SET_SEARCH_QUERY", t.arg)
       IN  IF Trim(t.arg) # <<>>
           THEN Searched(st, Trim(t.arg), state.filters)
           ELSE /\ state' = st
                /\ UNCHANGED <<searches, nSearches>>
    /\ UNCHANGED <<barMounted, localValue, valueSeen, timeout, nTimers, quiet, typed,
                   trending, relateVars, searchVars, favVars, detailVars>>

\* Some timer that is due fires.
FireDuePlain == \E t \in timers : FirePlain(t)

\* The bar is rendered with another `value`: the effect of lines 33-35 sets
\* localValue, and when that changes it the effect of lines 29-31 runs.
SyncValuePlain ==
    /\ barMounted
    /\ state.searchQuery # valueSeen
    /\ valueSeen' = state.searchQuery
    /\ localValue' = state.searchQuery
    /\ IF state.searchQuery # localValue
       THEN DebouncedPerRender(state.searchQuery) /\ quiet' = 0
       ELSE UNCHANGED <<timers, timeout, nTimers, quiet>>
    /\ UNCHANGED <<barMounted, typed, relateVars, searchVars, favVars, detailVars, indexVars>>

\* ------------------------------------------------------------ the favourites
\* The recipes a card can show (a recipe is represented by its idMeal, the only
\* field the favourites code reads).
FavIds == {"m1", "m2"}

\* What localStorage holds when the page is opened: nothing, or the list an earlier
\* visit saved, here without repeated recipes.
SavedLists ==
    {None} \cup {Some(s) : s \in {t \in SeqsUpTo(FavIds, MaxSaved) :
                                     \A i, j \in 1..Len(t) : t[i] = t[j] => i = j}}

FavInit ==
    /\ provided = FALSE
    /\ seen = <<>>
    /\ storage = None
    /\ nFavOps = 0

\* The provider's first render (state = initialState) and its mount effect,
\* RecipeContext.tsx lines 75-88: LOAD_FAVORITES when localStorage has the item.
MountProvider(saved) ==
    /\ ~provided
    /\ provided' = TRUE
    /\ storage' = saved
    /\ seen' = state.favorites
    /\ state' = IF IsSome(saved)
                THEN recipeReducer(state, "LOAD_FAVORITES", Get(saved))
                ELSE state
    /\ UNCHANGED <<nFavOps, searches, nSearches, trending, relateVars, searchVars, barVars,
                   detailVars>>

\* The provider renders again: isFavorite, addToFavorites and the cards' isLiked
\* are made anew over the current state.
RenderProvider ==
    /\ provided
    /\ seen # state.favorites
    /\ seen' = state.favorites
    /\ UNCHANGED <<provided, storage, nFavOps, indexVars, relateVars, searchVars, barVars,
                   detailVars>>

\* isFavorite, lines 100-102, of the last render.
isFavorite(recipeId) == recipeId \in Range(seen)

\* dispatch of ADD_FAVORITE or REMOVE_FAVORITE: the reducer also writes the new list
\* to localStorage (lines 50-51, 54-55).
DispatchFavorite(type, payload) ==
    /\ state' = recipeReducer(state, type, payload)
    /\ storage' = Some(recipeReducer(state, type, payload).favorites)

\* addToFavorites, lines 90-94.
AddToFavorites(r) ==
    /\ provided
    /\ nFavOps < MaxFavOps
    /\ nFavOps' = nFavOps + 1
    /\ IF ~isFavorite(r)
       THEN DispatchFavorite("ADD_FAVORITE", r)
       ELSE UNCHANGED <<state, storage>>
    /\ UNCHANGED <<provided, seen, searches, nSearches, trending, relateVars, searchVars,
                   barVars, detailVars>>

\* removeFromFavorites, lines 96-98.
RemoveFromFavorites(recipeId) ==
    /\ provided
    /\ nFavOps < MaxFavOps
    /\ nFavOps' = nFavOps + 1
    /\ DispatchFavorite("REMOVE_FAVORITE", recipeId)
    /\ UNCHANGED <<provided, seen, searches, nSearches, trending, relateVars, searchVars,
                   barVars, detailVars>>

\* RecipeCard.handleFavoriteClick, RecipeCard.tsx lines 14-24: isLiked is the
\* isFavorite of the render the card was drawn in.
HandleFavoriteClick(r) ==
    IF isFavorite(r) THEN RemoveFromFavorites(r) ELSE AddToFavorites(r)

\* ---------------------------------------------------------- the detail page
RouteIds == {"m1", "m2"}
NotFound == "Recipe not found"
LoadFailed == "Failed to load recipe"

LookupIds == 1..MaxLookups

\* An invocation of fetchRecipe that has not been started; id is the route id its
\* closure holds.
NoLookup == [pc |-> "idle", id |-> ""]

\* useState at RecipeDetail.tsx lines 15-17.
DetailInit ==
    /\ routeId = ""
    /\ detailPending = FALSE
    /\ detail = [recipe |-> None, loading |-> TRUE, error |-> Null]
    /\ lookups = [k \in LookupIds |-> NoLookup]
    /\ nLookups = 0

\* The page is rendered for the first time, for the route /recipe/:id.
OpenDetail(id) ==
    /\ routeId = ""
    /\ routeId' = id
    /\ detailPending' = TRUE
    /\ UNCHANGED <<detail, lookups, nLookups, relateVars, searchVars, indexVars, barVars,
                   favVars>>

\* The route changes to another id while the page stays mounted: the dependency of
\* the effect (line 41) changes.
Navigate(id) ==
    /\ routeId # ""
    /\ id # routeId
    /\ ~detailPending
    /\ nLookups < MaxLookups
    /\ routeId' = id
    /\ detailPending' = TRUE
    /\ UNCHANGED <<detail, lookups, nLookups, relateVars, searchVars, indexVars, barVars,
                   favVars>>

\* The effect runs fetchRecipe up to its await (lines 21-26).
FetchRecipe ==
    /\ detailPending
    /\ nLookups < MaxLookups
    /\ detailPending' = FALSE
    /\ detail' = [detail EXCEPT !.loading = TRUE]
    /\ lookups' = [lookups EXCEPT ![nLookups + 1] = [pc |-> "await", id |-> routeId]]
    /\ nLookups' = nLookups + 1
    /\ UNCHANGED <<routeId, relateVars, searchVars, indexVars, barVars, favVars>>

\* getRecipeById answers (part_007 lines 32-35: the first meal or null): lines
\* 27-31 and the finally block.
LookupReturns(k, found) ==
    /\ lookups[k].pc = "await"
    /\ IF found
       THEN /\ detail' = [detail EXCEPT !.recipe = Some(lookups[k].id), !.loading = FALSE]
            /\ lookups' = [lookups EXCEPT ![k].pc = "found"]
       ELSE /\ detail' = [detail EXCEPT !.error = NotFound, !.loading = FALSE]
            /\ lookups' = [lookups EXCEPT ![k].pc = "missing"]
    /\ UNCHANGED <<routeId, detailPending, nLookups, relateVars, searchVars, indexVars,
                   barVars, favVars>>

\* getRecipeById rejects: catch and finally, lines 32-37.
LookupRejects(k) ==
    /\ lookups[k].pc = "await"
    /\ detail' = [detail EXCEPT !.error = LoadFailed, !.loading = FALSE]
    /\ lookups' = [lookups EXCEPT ![k].pc = "failed"]
    /\ UNCHANGED <<routeId, detailPending, nLookups, relateVars, searchVars, indexVars,
                   barVars, favVars>>

\* ------------------------------------------------------------ specifications
\* One mounted component whose props never change: one aggregation run.
RunNext ==
    \/ \E r \in Focals, l \in Limits : Mount(r, l)
    \/ RunEffect
    \/ \E k \in RunIds, pool \in Pools : CategoryReturns(k, pool)
    \/ \E k \in RunIds, pool \in Pools : AreaReturns(k, pool)
    \/ \E k \in RunIds, pool \in Pools : IngredientReturns(k, pool)
    \/ \E k \in RunIds : FetchFails(k)

\* The component over its life: the props may change while runs are in flight.
RelateNext ==
    \/ \E r \in Focals, l \in Limits : Mount(r, l)
    \/ RunEffect
    \/ \E r \in Focals, l \in Limits : ChangeRecipe(r, l)
    \/ \E k \in RunIds, pool \in Pools : CategoryReturns(k, pool)
    \/ \E k \in RunIds, pool \in Pools : AreaReturns(k, pool)
    \/ \E k \in RunIds, pool \in Pools : IngredientReturns(k, pool)
    \/ \E k \in RunIds : FetchFails(k)

\* One run against a deterministic gateway that keeps what it answered.
ServedNext ==
    \/ \E r \in Focals, l \in Limits : Mount(r, l)
    \/ RunEffect
    \/ \E k \in RunIds, pool \in Pools : CategoryServed(k, pool)
    \/ \E k \in RunIds, pool \in Pools : AreaServed(k, pool)
    \/ \E k \in RunIds, pool \in Pools : IngredientServed(k, pool)
    \/ \E k \in RunIds : FetchFails(k)

\* Repeated runs for the same recipe and limit against a deterministic gateway.
RepeatNext ==
    \/ \E r \in Focals, l \in Limits : Mount(r, l)
    \/ RunEffect
    \/ RefreshRecipe
    \/ \E k \in RunIds, pool \in Pools : CategoryServed(k, pool)
    \/ \E k \in RunIds, pool \in Pools : AreaServed(k, pool)
    \/ \E k \in RunIds, pool \in Pools : IngredientServed(k, pool)
    \/ \E k \in RunIds : FetchFails(k)

\* One invocation of searchWithFilters.
SearchNext ==
    \/ \E q \in Queries, f \in FilterSets : SearchWithFilters(q, f)
    \/ \E recipes \in Fetched : FetchReturns(recipes)
    \/ FetchRejects
    \/ \E meal \in {None, Some(RandomMeal)} : RandomReturns(meal)
    \/ RandomRejects
    \/ LateAnswer

\* The Index page: its searches and its trending load.
IndexNext ==
    \/ LoadTrending
    \/ TrendingSettles
    \/ \E q \in IndexQueries : HandleSearch(q)
    \/ \E f \in IndexFilters : HandleFilterChange(f)
    \/ \E k \in SearchIds : SearchRejects(k)
    \/ \E k \in SearchIds, fetched \in Fetched : SearchSettles(k, fetched)

\* The SearchBar of the Index page; the searches it starts stay unanswered.
BarNext ==
    \/ MountBar
    \/ \E text \in Texts : Type(text)
    \/ Clear
    \/ Submit
    \/ Tick
    \/ FireDue
    \/ SyncValue

\* The SearchBar while the user only edits the input (the form is not submitted):
\* every search is started by the debounced callback.
TypingNext ==
    \/ MountBar
    \/ \E text \in Texts : Type(text)
    \/ Clear
    \/ Tick
    \/ FireDue
    \/ SyncValue

\* The SearchBar that is not memoized, wired to the Index page's state.
PlainNext ==
    \/ MountPlain
    \/ \E text \in Texts : TypePlain(text)
    \/ ClearPlain
    \/ Submit
    \/ Tick
    \/ FireDuePlain
    \/ SyncValuePlain

\* The favourites of the RecipeProvider and the cards that toggle them.
FavNext ==
    \/ \E saved \in SavedLists : MountProvider(saved)
    \/ RenderProvider
    \/ \E r \in FavIds : HandleFavoriteClick(r)
    \/ \E r \in FavIds : AddToFavorites(r)
    \/ \E r \in FavIds : RemoveFromFavorites(r)

\* The RecipeDetail page over a sequence of route ids.
DetailNext ==
    \/ \E id \in RouteIds : OpenDetail(id)
    \/ \E id \in RouteIds : Navigate(id)
    \/ FetchRecipe
    \/ \E k \in LookupIds, found \in BOOLEAN : LookupReturns(k, found)
    \/ \E k \in LookupIds : LookupRejects(k)

vars == <<relateVars, searchVars, indexVars, barVars, favVars, detailVars>>

Init == RelateInit /\ SearchInit /\ IndexInit /\ BarInit /\ FavInit /\ DetailInit
Spec == Init /\ [][RelateNext]_vars
SpecRun == Init /\ [][RunNext]_vars
SpecSearch == Init /\ [][SearchNext]_vars
SpecIndex == Init /\ [][IndexNext]_vars
SpecServed == Init /\ [][ServedNext]_vars
SpecRepeat == Init /\ [][RepeatNext]_vars
SpecBar == Init /\ [][BarNext]_vars
SpecTyping == Init /\ [][TypingNext]_vars
\* Time passes, due timers fire and React renders again and runs its effects; the
\* user is under no obligation.
SpecPlain ==
    /\ Init /\ [][PlainNext]_vars
    /\ WF_vars(Tick)
    /\ WF_vars(FireDuePlain)
    /\ WF_vars(SyncValuePlain)
SpecFav == Init /\ [][FavNext]_vars
SpecDetail == Init /\ [][DetailNext]_vars

\* The awaited gateway call of run k returns: it answers or it rejects.
CallReturns(k) ==
    \/ \E pool \in Pools : CategoryReturns(k, pool)
    \/ \E pool \in Pools : AreaReturns(k, pool)
    \/ \E pool \in Pools : IngredientReturns(k, pool)
    \/ FetchFails(k)

\* One run, under the assumption that the effect is run after the render and that
\* every gateway call a run waits for eventually returns.
SpecRunFair ==
    /\ SpecRun
    /\ WF_vars(RunEffect)
    /\ \A k \in RunIds : WF_vars(CallReturns(k))

\* ------------------------------------------------------------------ claims
NoDup(s) == \A i, j \in 1..Len(s) : s[i] = s[j] => i = j
Dims(run) == [i \in 1..Len(run.calls) |-> run.calls[i].dim]
IsPrefix(s, t) == Len(s) <= Len(t) /\ \A i \in 1..Len(s) : s[i] = t[i]

\* C1: the list a run publishes holds no recipe with the focal recipe's idMeal and
\* no two recipes with the same idMeal, whatever the pools hold.
C1_ResultDistinctWithoutFocal ==
    \A k \in RunIds :
        IsSome(runs[k].result) =>
            /\ runs[k].focal \notin Range(Get(runs[k].result))
            /\ NoDup(Get(runs[k].result))

\* C2: the step in which a run fails leaves the failure text in `error` and an
\* empty list in `relatedRecipes`.
C2_FailureLeavesEmptyResult ==
    [][\A k \in RunIds :
          (runs[k].pc # "failed" /\ runs'[k].pc = "failed") =>
              (error' = RelatedFailed /\ relatedRecipes' = <<>>)]_vars

\* C3: a run in which a fetch failed has not called setRelatedRecipes, nothing it
\* collected is in the exposed list, and it has set the failure text exactly once.
C3_FailedRunPublishesNothing ==
    \A k \in RunIds :
        runs[k].pc = "failed" =>
            /\ runs[k].published = 0
            /\ runs[k].result = None
            /\ runs[k].errors = 1
            /\ error = RelatedFailed
            /\ Range(relatedRecipes) \cap Range(runs[k].recipes) = {}

\* A run whose category fetch answered with recipes and whose next fetch failed.
C3_Witness ==
    \E k \in RunIds :
        /\ runs[k].pc = "failed"
        /\ Len(runs[k].calls) >= 2
        /\ runs[k].recipes # <<>>

\* C4: when the category pool without the focal recipe has at least `limit`
\* recipes, the run makes exactly one gateway call, the category fetch.
C4_EnoughCategoryPeersOneCall ==
    \A k \in RunIds :
        (Len(runs[k].sizes) >= 1 /\ runs[k].sizes[1] >= runs[k].lim) =>
            /\ Len(runs[k].calls) = 1
            /\ runs[k].calls[1].dim = "category"
            /\ runs[k].pc = "done"

\* A finished run whose category pool held more peers than the limit.
C4_Witness ==
    \E k \in RunIds :
        /\ runs[k].pc = "done"
        /\ runs[k].sizes[1] > runs[k].lim
        /\ Len(runs[k].calls) = 1

\* C5: when the working set after the area step has at least `limit` recipes, the
\* run sends no ingredient fetch and returns exactly `limit` recipes, all of them
\* from the working set, with no duplicate idMeal.
C5_AreaStepFillsTheLimit ==
    \A k \in RunIds :
        (Len(runs[k].sizes) >= 2 /\ runs[k].sizes[2] >= runs[k].lim) =>
            /\ Dims(runs[k]) = <<"category", "area">>
            /\ IsSome(runs[k].result)
            /\ Len(Get(runs[k].result)) = runs[k].lim
            /\ Range(Get(runs[k].result)) \subseteq Range(runs[k].recipes)
            /\ NoDup(Get(runs[k].result))

\* C6: a run fetches each of category, area and ingredient at most once, makes at
\* most 3 calls, and has nothing in flight once it has ended.
C6_EachDimensionOnce ==
    \A k \in RunIds :
        /\ Len(runs[k].calls) <= 3
        /\ NoDup(Dims(runs[k]))
        /\ runs[k].pc \in {"done", "failed"} => runs[k].outstanding = 0

\* A run that got three empty pools and ended after three calls.
C6_Witness ==
    \E k \in RunIds :
        /\ runs[k].pc = "done"
        /\ runs[k].sizes = <<0, 0, 0>>
        /\ Len(runs[k].calls) = 3

\* C7: a run's calls go out in the order category, area, ingredient, each after
\* the answer to the one before, never two at a time, and the area and ingredient
\* calls only while the working set is shorter than `limit`.
C7_SequentialOrderedCalls ==
    \A k \in RunIds :
        /\ runs[k].outstanding <= 1
        /\ IsPrefix(Dims(runs[k]), <<"category", "area", "ingredient">>)
        /\ Len(runs[k].calls) <= Len(runs[k].sizes) + 1
        /\ \A i \in 2..Len(runs[k].calls) : runs[k].calls[i].size < runs[k].lim

\* A run waiting for its third call, the ingredient fetch.
C7_Witness ==
    \E k \in RunIds :
        /\ runs[k].pc = "awaitIngredient"
        /\ runs[k].outstanding = 1
        /\ Len(runs[k].calls) = 3
        /\ runs[k].recipes # <<>>

\* The fetch dimensions of searchWithFilters from the highest priority to the lowest.
Rank(endpoint) ==
    CASE endpoint = "ingredient" -> 1
      [] endpoint = "category" -> 2
      [] endpoint = "area" -> 3
      [] endpoint = "name" -> 4
      [] endpoint = "random" -> 5
Endpoints == {"ingredient", "category", "area", "name", "random"}

\* The value the invocation was given for a dimension, when it was given one.
Given(s, endpoint) ==
    CASE endpoint = "ingredient" -> s.filters.ingredient
      [] endpoint = "category" -> s.filters.category
      [] endpoint = "area" -> s.filters.area
      [] endpoint = "name" -> Some(s.query)
      [] endpoint = "random" -> None
Present(s, endpoint) == endpoint = "random" \/ Truthy(Given(s, endpoint))

\* C8: every request an invocation sends is for the highest-priority dimension it
\* was given (ingredient, category, area, query, else 12 random recipes), with that
\* dimension's value; nothing is sent for a lower one.
C8_PriorityOfFetch ==
    search.pc # "idle" =>
        /\ search.requests # <<>>
        /\ \A i \in 1..Len(search.requests) :
              LET r == search.requests[i]
              IN  /\ Present(search, r.endpoint)
                  /\ \A e \in Endpoints : Rank(e) < Rank(r.endpoint) => ~Present(search, e)
                  /\ r.endpoint # "random" => r.arg = Get(Given(search, r.endpoint))
        /\ search.requests[1].endpoint = "random" => Len(search.requests) = RandomCount

\* An invocation with an ingredient and a category filter that fetched by ingredient.
C8_Witness ==
    /\ search.pc = "done"
    /\ Truthy(search.filters.ingredient)
    /\ Truthy(search.filters.category)
    /\ search.requests = <<Request("ingredient", Get(search.filters.ingredient))>>

\* C9 as stated: an invocation sends exactly one request and never has two
\* outstanding, the fallback with no query and no filter included.
C9_OneRequestPerInvocation ==
    search.pc # "idle" =>
        /\ Len(search.requests) = 1
        /\ search.outstanding <= 1

Fallback(s) ==
    /\ s.query = <<>>
    /\ ~Truthy(s.filters.ingredient)
    /\ ~Truthy(s.filters.category)
    /\ ~Truthy(s.filters.area)

\* C9 amended: with a filter or a query an invocation sends exactly one request and
\* never has two outstanding; in the fallback it sends the 12 random-recipe requests
\* of getRandomRecipes(12), all outstanding together.
C9_OneRequestUnlessFallback ==
    search.pc # "idle" =>
        IF Fallback(search)
        THEN /\ Len(search.requests) = RandomCount
             /\ \A i \in 1..Len(search.requests) : search.requests[i].endpoint = "random"
             /\ search.outstanding <= RandomCount
             /\ search.pc = "awaitAll" => search.outstanding + Len(search.random) = RandomCount
        ELSE /\ Len(search.requests) = 1
             /\ search.requests[1].endpoint # "random"
             /\ search.outstanding <= 1

\* The fallback right after the call: 12 requests outstanding.
C9_Witness ==
    /\ search.pc = "awaitAll"
    /\ Fallback(search)
    /\ search.outstanding = RandomCount

\* The test of the claim on one recipe: the lower-cased query is a substring of the
\* lower-cased name, instructions or tag string (an absent field matches nothing).
Matches(r, query) ==
    LET q == toLowerCase(query)
    IN  \/ includes(toLowerCase(r.strMeal), q)
        \/ \E t \in Range(r.strInstructions) : includes(toLowerCase(t), q)
        \/ \E t \in Range(r.strTags) : includes(toLowerCase(t), q)

\* C10: with a non-empty query the list returned is the fetched list restricted to
\* the recipes that match, in the fetched order; with an empty query it is the
\* fetched list.
C10_ReturnsMatchingSubsequence ==
    search.pc = "done" =>
        /\ IsSome(search.fetched)
        /\ search.result =
              Some(IF search.query # <<>>
                   THEN SelectSeq(Get(search.fetched), LAMBDA r : Matches(r, search.query))
                   ELSE Get(search.fetched))

\* An upper-case query over two recipes without tags: the one whose name matches is
\* kept, the other dropped.
C10_Witness ==
    /\ search.pc = "done"
    /\ search.query = <<"S", "O">>
    /\ IsSome(search.fetched)
    /\ Len(Get(search.fetched)) = 2
    /\ Get(search.fetched)[1].idMeal = "s4"
    /\ Get(search.fetched)[2].idMeal = "s6"
    /\ Len(Get(search.result)) = 1
    /\ Get(search.result)[1].idMeal = "s6"

\* C11: an invocation with a non-empty query whose fetch has answered never fails:
\* whatever fields the fetched candidates carry, each one is tested and kept or
\* dropped (fetched [{name 'sO'}, {name 'St'}] with query 'so' returns the first).
C11_NoThrowOnCandidateShape ==
    (search.query # <<>> /\ IsSome(search.fetched)) => search.pc # "failed"

\* C12: when an invocation of handleSearch fails (the request of searchWithFilters
\* rejected, or searchWithFilters threw), the failing step dispatches SET_ERROR with
\* 'Failed to search recipes' once and nothing else: error holds that text, loading
\* is false, state.recipes is what it was, the invocation has dispatched no
\* SET_RECIPES, and it does nothing afterwards.
C12_FailedSearchOneErrorNoRecipes ==
    [][\A k \in SearchIds :
          /\ (searches[k].pc = "await" /\ searches'[k].pc = "failed") =>
                /\ searches'[k].errors = 1
                /\ searches'[k].stored = 0
                /\ state'.error = SearchFailed
                /\ state'.loading = FALSE
                /\ state'.recipes = state.recipes
          /\ searches[k].pc = "failed" => searches'[k] = searches[k]]_vars

\* An earlier search has stored a list; a later one failed and the list is still
\* there, next to the error.
C12_Witness ==
    /\ searches[1].pc = "done"
    /\ searches[2].pc = "failed"
    /\ searches[2].errors = 1
    /\ state.recipes # <<>>
    /\ state.error = SearchFailed
    /\ state.loading = FALSE

CountIn(s, x) == Cardinality({i \in 1..Len(s) : s[i] = x})
SubBag(s, t) == \A x \in Range(s) : CountIn(s, x) <= CountIn(t, x)
Awaiting == {"awaitCategory", "awaitArea", "awaitIngredient"}

\* What a run that executes alone does with the answer `pool` to the call it is
\* waiting for: o is the run before the answer, n after it.
AnswerAlone(o, n, pool) ==
    LET ws == o.recipes \o SelectSeq(pool, LAMBDA r : r # o.focal /\ r \notin Range(o.recipes))
        token == o.strategy.mainIngredient
        more == IF o.pc = "awaitCategory" /\ Len(ws) < o.lim THEN "area"
                ELSE IF o.pc # "awaitIngredient" /\ Len(ws) < o.lim /\ token \notin {None, Some(<<>>)}
                THEN "ingredient"
                ELSE "none"
    IN  /\ n.recipes = ws
        /\ n.focal = o.focal /\ n.lim = o.lim /\ n.strategy = o.strategy
        /\ n.errors = 0
        /\ CASE more = "area" ->
                   /\ n.pc = "awaitArea"
                   /\ n.calls = Append(o.calls, Call("area", o.strategy.area, Len(ws)))
                   /\ n.result = None
              [] more = "ingredient" ->
                   /\ n.pc = "awaitIngredient"
                   /\ n.calls = Append(o.calls, Call("ingredient", Get(token), Len(ws)))
                   /\ n.result = None
              [] OTHER ->
                   /\ n.pc = "done"
                   /\ n.calls = o.calls
                   /\ IsSome(n.result)
                   /\ Len(Get(n.result)) = Min(o.lim, Len(ws))
                   /\ SubBag(Get(n.result), ws)

\* C13: with runs overlapping, a step changes one run only, and changes it as the
\* run would change alone: it starts from the props of its render, it fails, or it
\* merges an answer into its own working set and decides from its own working set,
\* limit and token whether to send the area or ingredient call or to publish.
C13_RunsDoNotInterfere ==
    [][\A k \in RunIds :
          runs'[k] # runs[k] =>
              /\ \A j \in RunIds \ {k} : runs'[j] = runs[j]
              /\ \/ /\ runs[k].pc = "idle"
                    /\ runs'[k].pc = "awaitCategory"
                    /\ runs'[k].focal = recipe.idMeal
                    /\ runs'[k].lim = limit
                    /\ runs'[k].recipes = <<>>
                    /\ runs'[k].calls = <<Call("category", recipe.strCategory, 0)>>
                 \/ /\ runs[k].pc \in Awaiting
                    /\ runs'[k].pc = "failed"
                    /\ runs'[k].result = None
                    /\ runs'[k].calls = runs[k].calls
                 \/ /\ runs[k].pc \in Awaiting
                    /\ \E pool \in Pools : AnswerAlone(runs[k], runs'[k], pool)]_vars

\* Two runs for different focal recipes overlapped: the second has published while
\* the first, which collected another working set, still waits for its area pool.
C13_Witness ==
    /\ runs[1].pc = "awaitArea"
    /\ runs[2].pc = "done"
    /\ runs[1].focal # runs[2].focal
    /\ runs[1].lim # runs[2].lim
    /\ runs[1].recipes # <<>>
    /\ runs[2].recipes # <<>>
    /\ runs[1].recipes # runs[2].recipes

\* The calls a run sent, without the log's working-set lengths.
Sent(run) == [i \in 1..Len(run.calls) |-> <<run.calls[i].dim, run.calls[i].arg>>]

FocalOf(id) == CHOOSE f \in Focals : f.idMeal = id
Asked(dim) == \E e \in gateway : e.dim = dim
Got(dim) == (CHOOSE e \in gateway : e.dim = dim).pool
HasToken(f) ==
    /\ f.strIngredient1 # None
    /\ Get(f.strIngredient1) # <<>>
    /\ Get(f.strIngredient1)[1] # " "

\* pool without the focal recipe and without the recipes of `have`, in pool order.
Fresh(pool, id, have) == SelectSeq(pool, LAMBDA r : r # id /\ r \notin Range(have))

\* The reference of the claim, from the pools the gateway answered.
RefCategory(f) == Fresh(Got("category"), f.idMeal, <<>>)
RefArea(f, lim) ==
    IF Len(RefCategory(f)) < lim
    THEN RefCategory(f) \o Fresh(Got("area"), f.idMeal, RefCategory(f))
    ELSE RefCategory(f)
RefIngredient(f, lim) ==
    IF Len(RefArea(f, lim)) < lim /\ HasToken(f)
    THEN RefArea(f, lim) \o Fresh(Got("ingredient"), f.idMeal, RefArea(f, lim))
    ELSE RefArea(f, lim)

\* C20: the working set of a successful run is the reference: the category pool
\* without the focal recipe; if that is shorter than limit, followed by the area
\* pool's recipes that are neither the focal recipe nor in it; if that is still
\* shorter than limit and a token exists, followed by the ingredient pool's recipes
\* that are neither the focal recipe nor in the working set; pool order kept, and
\* the pools asked for are the ones the reference uses.
C20_WorkingSetIsReference ==
    \A k \in RunIds :
        runs[k].pc = "done" =>
            LET f == FocalOf(runs[k].focal)
                lim == runs[k].lim
            IN  /\ Asked("category")
                /\ Asked("area") <=> Len(RefCategory(f)) < lim
                /\ Asked("ingredient") <=>
                      (Len(RefCategory(f)) < lim /\ Len(RefArea(f, lim)) < lim /\ HasToken(f))
                /\ runs[k].recipes = RefIngredient(f, lim)

\* Focal m1, limit 2: category [m1, m2], area [m2, m1], ingredient [m2, m3] give
\* the working set [m2, m3].
C20_Witness ==
    /\ runs[1].pc = "done"
    /\ runs[1].focal = "m1" /\ runs[1].lim = 2
    /\ Asked("category") /\ Got("category") = <<"m1", "m2">>
    /\ Asked("area") /\ Got("area") = <<"m2", "m1">>
    /\ Asked("ingredient") /\ Got("ingredient") = <<"m2", "m3">>
    /\ runs[1].recipes = <<"m2", "m3">>

\* C15: a run whose working set is still shorter than limit after the area pool,
\* for a focal recipe without a first ingredient, with an empty one, or with one
\* that starts with a space, sends no third call: it ends at once, successfully,
\* publishing the recipes collected so far, with no failure text.
C15_NoTokenSkipsIngredient ==
    \A k \in RunIds :
        (/\ Len(runs[k].sizes) >= 2
         /\ runs[k].sizes[2] < runs[k].lim
         /\ ~HasToken(FocalOf(runs[k].focal))) =>
            /\ runs[k].pc = "done"
            /\ Dims(runs[k]) = <<"category", "area">>
            /\ runs[k].errors = 0
            /\ error = Null
            /\ ~loading
            /\ IsSome(runs[k].result)
            /\ Len(Get(runs[k].result)) = Len(runs[k].recipes)
            /\ SubBag(Get(runs[k].result), runs[k].recipes)
            /\ relatedRecipes = Get(runs[k].result)

\* The focal recipe m3, whose first ingredient starts with a space: one recipe
\* collected with limit 2, two calls, done.
C15_Witness ==
    /\ runs[1].pc = "done"
    /\ runs[1].focal = "m3"
    /\ runs[1].lim = 2
    /\ Len(runs[1].calls) = 2
    /\ Len(runs[1].recipes) = 1
    /\ relatedRecipes = runs[1].recipes

\* The aggregator's half of C16: a run that ended after every pool it was answered
\* was empty or held only the focal recipe published the empty list, and no
\* failure text was set.
C16_EmptyPoolsEmptyResult ==
    \A k \in RunIds :
        (runs[k].pc = "done" /\ \A e \in gateway : Range(e.pool) \subseteq {runs[k].focal}) =>
            /\ runs[k].result = Some(<<>>)
            /\ relatedRecipes = <<>>
            /\ runs[k].errors = 0
            /\ error = Null

\* The planner's half of C16: an invocation with a query whose fetch answered a
\* list in which no recipe matches returns the empty list.
C16_NoMatchEmptyList ==
    (/\ search.query # <<>>
     /\ IsSome(search.fetched)
     /\ \A i \in 1..Len(Get(search.fetched)) : ~Matches(Get(search.fetched)[i], search.query)) =>
        /\ search.pc = "done"
        /\ search.result = Some(<<>>)

\* C16: zero matches are not an error, neither for an aggregation run whose pools
\* are all empty or hold only the focal recipe, nor for searchWithFilters when no
\* fetched recipe matches the query: both end with the empty list and no failure.
C16_ZeroMatchesNoError == C16_EmptyPoolsEmptyResult /\ C16_NoMatchEmptyList

Returned(run) == Len(run.sizes) + run.errors

\* C18: a run waits for its call without a time limit. While the call is
\* outstanding the run has published nothing, no failure text is set and loading is
\* true; the run moves only in a step in which that call returns; and a run that
\* has ended has had every call it sent returned.
C18_RunWaitsForItsCall ==
    /\ [](\A k \in RunIds :
            /\ runs[k].pc \in Awaiting =>
                  /\ runs[k].outstanding = 1
                  /\ Returned(runs[k]) = Len(runs[k].calls) - 1
                  /\ runs[k].published = 0
                  /\ runs[k].result = None
                  /\ runs[k].errors = 0
                  /\ relatedRecipes = <<>>
                  /\ error = Null
                  /\ loading
            /\ runs[k].pc \in {"done", "failed"} =>
                  /\ runs[k].outstanding = 0
                  /\ Returned(runs[k]) = Len(runs[k].calls))
    /\ [][\A k \in RunIds :
            (runs[k].pc \in Awaiting /\ runs'[k] # runs[k]) =>
                Returned(runs'[k]) = Returned(runs[k]) + 1]_vars

\* The run waits for its third call: two pools merged, nothing published, loading.
C18_Witness ==
    /\ runs[1].pc = "awaitIngredient"
    /\ runs[1].outstanding = 1
    /\ Len(runs[1].sizes) = 2
    /\ runs[1].recipes # <<>>
    /\ relatedRecipes = <<>>
    /\ loading

\* The timers a step ran the callback of, and the searches it started.
Ran == {t \in timers : \A u \in timers' : u.id # t.id}
StartedNow == {k \in SearchIds : searches[k].pc = "idle" /\ searches'[k].pc # "idle"}

\* C19: in the memoized SearchBar at most one timer is pending; a step that changes
\* localValue leaves as the only pending timer one for the new value with the whole
\* delay to go, so a timer pending before is cancelled; a callback runs only for a
\* timer whose delay has passed, with the value the input holds, and when that
\* value has not changed for 300 ms; it calls onSearch, with the trimmed value,
\* exactly when the trimmed value is not empty; and every search onSearch ever
\* started has a non-empty query without white space at its ends.
C19_DebounceLatestValueOnly ==
    /\ [](/\ Cardinality(timers) <= 1
          /\ \A k \in SearchIds :
                searches[k].pc # "idle" =>
                    searches[k].query # <<>> /\ Trim(searches[k].query) = searches[k].query)
    /\ [][/\ localValue' # localValue =>
                timers' = {[id |-> nTimers', arg |-> localValue', remaining |-> Delay]}
          /\ \A t \in Ran :
                localValue' = localValue =>
                    /\ t.remaining = 0
                    /\ t.arg = localValue
                    /\ quiet = Delay
                    /\ timers' = {}
                    /\ IF Trim(t.arg) = <<>>
                       THEN StartedNow = {}
                       ELSE /\ Cardinality(StartedNow) = 1
                            /\ \A k \in StartedNow : searches'[k].query = Trim(t.arg)]_vars

\* The user edited the input twice, last to 't '; three timers were set (one at the
\* first render), none is pending, and onSearch has been called once, with 't'.
C19_Witness ==
    /\ typed = 2
    /\ nTimers = 3
    /\ timers = {}
    /\ localValue = <<"t", " ">>
    /\ nSearches = 1
    /\ searches[1].query = <<"t">>

\* ------------------------------------------------------------------- C21
\* The first whitespace-delimited word of a string: the text between its leading
\* blanks and the next blank (the empty text when the string holds no word).
Blank(c) == c = " "
WordStart(s) == {i \in 1..Len(s) : ~Blank(s[i])}
FirstWord(s) ==
    IF WordStart(s) = {} THEN <<>>
    ELSE LET b == CHOOSE i \in WordStart(s) : \A j \in WordStart(s) : i <= j
             ends == {i \in b..Len(s) : Blank(s[i])}
             e == IF ends = {} THEN Len(s) + 1
                  ELSE CHOOSE i \in ends : \A j \in ends : i <= j
         IN  SubSeq(s, b, e - 1)

\* C21: the primary-ingredient token of every run is the first whitespace-delimited
\* word of the focal recipe's first ingredient, lower-cased (leading blanks skipped),
\* and no token is derived when the slot is absent.
C21_TokenIsFirstWord ==
    \A k \in 1..nRuns :
        LET f == FocalOf(runs[k].focal)
        IN  runs[k].strategy.mainIngredient =
                IF IsSome(f.strIngredient1)
                THEN Some(toLowerCase(FirstWord(Get(f.strIngredient1))))
                ELSE None

\* ------------------------------------------------------------------- C22
\* C22: whenever the hook reports loading false and error null, the list it
\* returns does not contain the recipe the component is rendered with now.
C22_ShownListExcludesFocal ==
    (mounted /\ ~loading /\ error = Null) =>
        recipe.idMeal \notin Range(relatedRecipes)

\* ------------------------------------------------------------------- C23
\* The run started last (for the props of the current render).
Resolved == {"done", "failed"}
AllResolved ==
    /\ nRuns >= 2
    /\ ~effectPending
    /\ \A k \in 1..nRuns : runs[k].pc \in Resolved

\* C23: once two overlapping runs for different focal recipes have both resolved,
\* in either order, relatedRecipes and error are what the later-started run left:
\* its published list and no error, or the failure text.
C23_LatestRunWins ==
    (AllResolved /\ runs[nRuns - 1].focal # runs[nRuns].focal) =>
        IF runs[nRuns].pc = "done"
        THEN relatedRecipes = Get(runs[nRuns].result) /\ error = Null
        ELSE error = RelatedFailed

\* ------------------------------------------------------------------- C24
\* C24: loading is true whenever at least one run is suspended on a gateway call.
C24_LoadingWhileAwaiting ==
    (\E k \in 1..nRuns : runs[k].pc \in Awaiting) => loading

\* ------------------------------------------------------------------- C25
\* Run k has ended and the hook shows its outcome: loading is off, and either the
\* run's published list with no error, or the failure text.
Settled(k) ==
    /\ ~loading
    /\ \/ runs[k].pc = "done" /\ IsSome(runs[k].result)
             /\ relatedRecipes = Get(runs[k].result) /\ error = Null
       \/ runs[k].pc = "failed" /\ error = RelatedFailed

\* C25: when every gateway call eventually returns, a run that waits for a call
\* eventually ends, with loading false and either its published result or the
\* failure text, whichever steps it takes or skips.
C25_RunEventuallySettles ==
    \A k \in RunIds : (runs[k].pc \in Awaiting) ~> Settled(k)

C25_Witness ==
    \E k \in 1..nRuns :
        /\ Settled(k)
        /\ runs[k].pc = "failed"
        /\ Len(runs[k].calls) = 3

\* ------------------------------------------------------------------- C26
\* C26: an answer to a search issued earlier, arriving after the search issued last
\* has resolved, does not replace what that search left in state.recipes and
\* state.error (the context keeps the result of the search issued last).
C26_EarlierAnswerKeepsLaterResult ==
    [][\A k \in 1..nSearches :
          (/\ k < nSearches
           /\ searches[k].pc = "await"
           /\ searches'[k].pc # "await"
           /\ searches[nSearches].pc \in {"done", "failed"})
          => (state'.recipes = state.recipes /\ state'.error = state.error)]_vars

\* ------------------------------------------------------------------- C27
\* C27: the favourites list holds at most one entry per idMeal, after any sequence
\* of addToFavorites and removeFromFavorites over a loaded list without repeats,
\* also when a recipe is added twice before the provider renders again.
C27_OneFavoritePerMeal == NoDup(state.favorites)

\* The part of C27 about removeFromFavorites: no entry with the id is left and the
\* other entries keep their order.
C27_RemoveLeavesTheOthers ==
    [][\A id \in FavIds :
          RemoveFromFavorites(id) =>
              /\ id \notin Range(state'.favorites)
              /\ state'.favorites = SelectSeq(state.favorites, LAMBDA r : r # id)]_vars

\* ------------------------------------------------------------------- C30
\* C30: once the lookup started last (the one for the current route id) has found
\* its recipe, the page shows that recipe: loading false, error null and recipe the
\* recipe looked up, whatever earlier lookups did or do.
C30_FoundRecipeIsShown ==
    (/\ nLookups >= 1
     /\ ~detailPending
     /\ lookups[nLookups].pc = "found")
    => (/\ lookups[nLookups].id = routeId
        /\ detail = [recipe |-> Some(routeId), loading |-> FALSE, error |-> Null])

\* The two halves of C30, each taken alone.
C30_EarlierErrorIsCleared ==
    (nLookups >= 1 /\ ~detailPending /\ lookups[nLookups].pc = "found"
        /\ \A k \in 1..nLookups : lookups[k].pc # "await")
    => detail.error = Null
C30_LateAnswerKeepsRecipe ==
    (nLookups >= 1 /\ ~detailPending /\ lookups[nLookups].pc = "found")
    => detail.recipe = Some(routeId)

\* ------------------------------------------------------------------- C29
\* C29: while the user only edits the input, the debounced callback starts at most
\* one search per edit: once onSearch has fired for a value, no further search is
\* started until the user edits again, whatever white space the value has.
C29_OneSearchPerEdit == nSearches <= typed

\* ------------------------------------------------------------------- C28
\* No timer is pending and the input, the value prop and the parent's value agree.
Quiescent ==
    /\ timers = {}
    /\ state.searchQuery = valueSeen
    /\ localValue = state.searchQuery

\* C28: in the SearchBar that makes its debounced function in every render, once
\* the user stops typing the component eventually comes to rest: from some point on
\* no timer is pending and the input and the parent's value agree.
C28_EventuallyQuiescent == <>[]Quiescent

====
